---- MODULE Spec2Model ----
(***************************************************************************)
(* Model of crowdcount-cascaded-mtl/crowdcount.py: the image pipeline      *)
(* (estimate_from_image) and the streaming pipeline (estimate_from_video). *)
(*                                                                         *)
(* Density values are held in fixed point, in tenths (12 stands for 1.2).  *)
(* A scaled density cell 255 * v / max is held as the exact fraction       *)
(* [num |-> 255 * v, den |-> max]; den = 0 is numpy's NaN (0 / 0).         *)
(* Pixel content of the colour frames is not tracked, only their shape.    *)
(* The heat map's content is tracked at the density map's resolution.      *)
(***************************************************************************)
EXTENDS Integers, Sequences, FiniteSets, TLC

\* ---------------------------------------------------------------- bounds
MaxFrames == 3
MapCells == 2

\* ------------------------------------------------------------ parameters
SAVE_IMAGE_PATH == "result.png"
IMAGE_WIDTH == 640
IMAGE_HEIGHT == 480

\* range(5) of the benchmark loop
BenchmarkRuns_Four == 5 - 1
BenchmarkRuns == 5

\* ---------------------------------------------------------- input domains
None == "None"
VideoArgs == {None, "0", "movie.mp4"}
SavePaths == {SAVE_IMAGE_PATH, "out.avi"}
Args == [video : VideoArgs, savepath : SavePaths, benchmark : BOOLEAN]

\* frame sizes (height, width) a capture source may report
FrameSizes == {<<480, 640>>, <<720, 1280>>, <<600, 600>>}
\* density values (tenths) the network may answer per cell
CellValues == {0, 12, 15}
DensityMaps == [1..MapCells -> CellValues]
\* cv2.waitKey(1) & 0xFF: the key 'q' or anything else
Keys == {"q", "other"}
\* what astype(np.uint8) may give for NaN (undefined by the C standard)
NaNCasts == {0, 255}

NoFrame == [id |-> 0, h |-> 0, w |-> 0, scene |-> [c \in 1..MapCells |-> 0]]
NoImage == [h |-> 0, w |-> 0]
NoHeat == [h |-> 0, w |-> 0, cells |-> <<>>, text |-> -1]
NoRes == [id |-> 0, h |-> 0, w |-> 0, cells |-> <<>>, text |-> -1]

VARIABLES
    pc,           \* position in the script
    args,         \* parsed command line
    source,       \* what the requested source turned out to be
    capture,      \* "unbound" | "open" | "unopened" | "released"
    f_size,       \* frame size the capture source delivers
    writer,       \* "unbound" | "none" | "open"
    writerSize,   \* (height, width) the writer was opened with
    ret, frame, key,
    input_image,  \* display copy (org_img / input_image): its shape
    input_data,   \* tensor handed to net.predict
    preds_ailia, et_count, density_map, heatmap, res_img,
    i,            \* benchmark loop counter
    saved,        \* history: images given to cv2.imwrite
    stdout, exit_status,
    predicted,    \* history: ids of the inputs given to net.predict
    shown,        \* history: images given to cv2.imshow (frame id and shape)
    written,      \* history: images given to writer.write (frame id and shape)
    pulled,       \* history: ids of the frames capture.read() delivered
    accepted,     \* history: ids of the frames whose iteration passed the check
    polls,        \* history: number of cv2.waitKey calls
    readAttempts, \* history: number of capture.read() calls
    stopSeen      \* history: a read returned ret=False or 'q' was observed

vars == <<pc, args, source, capture, f_size, writer, writerSize, ret, frame, key,
          input_image, input_data, preds_ailia, et_count, density_map, heatmap,
          res_img, i, saved, stdout, exit_status, predicted, shown, written,
          pulled, accepted, polls, readAttempts, stopSeen>>

hist == <<predicted, shown, written, pulled, accepted, polls, readAttempts, stopSeen>>
work == <<input_image, input_data, preds_ailia, et_count, density_map, heatmap, res_img>>

\* ------------------------------------------------------- pure operators
RECURSIVE SumTo(_, _)
SumTo(m, n) == IF n = 0 THEN 0 ELSE m[n] + SumTo(m, n - 1)
\* np.sum over the density tensor (tenths)
NpSum(m) == SumTo(m, Len(m))

RECURSIVE MaxTo(_, _)
MaxTo(m, n) == IF n = 1 THEN m[1] ELSE
               LET r == MaxTo(m, n - 1) IN IF m[n] > r THEN m[n] ELSE r
\* np.max over the density tensor (tenths)
NpMax(m) == MaxTo(m, Len(m))

\* int(x) of a non-negative float held in tenths: truncation
PyInt(t) == t \div 10

\* the opaque engine: a deterministic function of its input tensor
NetPredict(data) == data.scene

\* et_count = int(np.sum(preds_ailia))
EtCount(preds) == PyInt(NpSum(preds))

\* 255 * preds_ailia / np.max(preds_ailia), cell by cell, no guard on max = 0
ScaleDensity(preds) ==
    [c \in 1..Len(preds) |-> [num |-> 255 * preds[c], den |-> NpMax(preds)]]

IsNaN(cell) == cell.den = 0

\* cv2.resize(density_map, (w, h)): new shape; a NaN cell stays NaN
Resize(m, w, h) == [h |-> h, w |-> w, cells |-> m]

\* density_map.astype(np.uint8) for one cell; u is the outcome for NaN
AsUint8(cell, u) == IF IsNaN(cell) THEN u ELSE (cell.num \div cell.den) % 256

\* cv2.applyColorMap(density_map.astype(np.uint8), COLORMAP_JET) + cv2.putText
Heatmap(dm, count, u) ==
    [h |-> dm.h, w |-> dm.w,
     cells |-> [c \in 1..Len(dm.cells) |-> AsUint8(dm.cells[c], u)],
     text |-> count]

\* np.hstack((left, heat)): same height, widths add
Hstack(id, left, heat) ==
    [id |-> id, h |-> left.h, w |-> left.w + heat.w, cells |-> heat.cells, text |-> heat.text]

\* what a sink keeps of an image in the histories: which frame, which shape
Shape(img) == [id |-> img.id, h |-> img.h, w |-> img.w]

\* load_image(path, (IMAGE_HEIGHT, IMAGE_WIDTH)): the image resized to the given shape
LoadImageShape == [h |-> IMAGE_HEIGHT, w |-> IMAGE_WIDTH]

\* display size of a frame of f_h x f_w for the target height x width: the
\* dimension with the larger ratio is brought to its bound, the other follows
AdjustFsize(f_h, f_w, height, width) ==
    IF f_h = 0 \/ f_w = 0 THEN <<0, 0>>
    ELSE IF f_h * width >= f_w * height
         THEN <<height, (f_w * height) \div f_h>>
         ELSE <<(f_h * width) \div f_w, width>>

\* webcamera_utils.calc_adjust_fsize(f_h, f_w, IMAGE_HEIGHT, IMAGE_WIDTH)
CalcAdjustFsize(f_h, f_w) == AdjustFsize(f_h, f_w, IMAGE_HEIGHT, IMAGE_WIDTH)

\* shape of input_image from webcamera_utils.preprocess_frame(frame, ...)
PreprocessShape(fr) ==
    LET s == AdjustFsize(fr.h, fr.w, IMAGE_HEIGHT, IMAGE_WIDTH)
    IN  [h |-> s[1], w |-> s[2]]

\* check_file_existance(args.video): TRUE for a file that exists; a path that
\* does not exist is fatal, the helper reports it and ends the run
CheckFileExistance(kind) == IF kind = "missing" THEN "exit" ELSE "true"

\* args.savepath != SAVE_IMAGE_PATH
NeedsWriter_Always(savepath) == TRUE
NeedsWriter(savepath) == savepath # SAVE_IMAGE_PATH

\* get_writer(args.savepath, save_h, save_w * 2)
WriterShape_Single(save_h, save_w) == <<save_h, save_w>>
WriterShape(save_h, save_w) == <<save_h, save_w * 2>>

\* not capture.isOpened()
WebcamNotFound_Ignored(cap) == FALSE
WebcamNotFound(cap) == cap # "open"

\* (cv2.waitKey(1) & 0xFF == ord('q')) or not ret
ShouldBreak_KeyOnly(k, r) == k = "q"
ShouldBreak(k, r) == (k = "q") \/ ~r

\* writer is not None
WriterPresent_Never(w) == FALSE
WriterPresent(w) == w # "none"

\* ------------------------------------------------------------------ Init
Init ==
    /\ args \in Args
    /\ pc = "main"
    /\ source = "unknown"
    /\ capture = "unbound"
    /\ f_size = <<0, 0>>
    /\ writer = "unbound"
    /\ writerSize = <<0, 0>>
    /\ ret = FALSE
    /\ frame = NoFrame
    /\ key = "other"
    /\ input_image = NoImage
    /\ input_data = NoFrame
    /\ preds_ailia = <<>>
    /\ et_count = 0
    /\ density_map = [h |-> 0, w |-> 0, cells |-> <<>>]
    /\ heatmap = NoHeat
    /\ res_img = NoRes
    /\ i = 0
    /\ saved = <<>>
    /\ stdout = <<>>
    /\ exit_status = -1
    /\ predicted = <<>>
    /\ shown = <<>>
    /\ written = <<>>
    /\ pulled = <<>>
    /\ accepted = <<>>
    /\ polls = 0
    /\ readAttempts = 0
    /\ stopSeen = FALSE

\* --------------------------------------------------------------- actions
\* main(): models are checked, then the mode is chosen
Main ==
    /\ pc = "main"
    /\ pc' = IF args.video # None THEN "vid_open" ELSE "img_load"
    /\ UNCHANGED <<args, source, capture, f_size, writer, writerSize, ret, frame, key,
                   work, i, saved, stdout, exit_status, hist>>

\* estimate_from_image: load the image twice, initialise the net
ImgPrepare ==
    /\ pc = "img_load"
    /\ \E scene \in DensityMaps :
         input_data' = [id |-> 1, h |-> IMAGE_HEIGHT, w |-> IMAGE_WIDTH, scene |-> scene]
    /\ input_image' = LoadImageShape
    /\ source' = "image"
    /\ stdout' = Append(stdout, "env_id")
    /\ pc' = "img_infer"
    /\ UNCHANGED <<args, capture, f_size, writer, writerSize, ret, frame, key,
                   preds_ailia, et_count, density_map, heatmap, res_img, i, saved,
                   exit_status, hist>>

\* if args.benchmark: ... else: preds_ailia = net.predict(input_data)
ImgInference ==
    /\ pc = "img_infer"
    /\ IF args.benchmark
       THEN /\ stdout' = Append(stdout, "BENCHMARK mode")
            /\ i' = 0
            /\ pc' = "img_bench"
            /\ UNCHANGED <<preds_ailia, predicted>>
       ELSE /\ preds_ailia' = NetPredict(input_data)
            /\ predicted' = Append(predicted, input_data.id)
            /\ pc' = "img_post"
            /\ UNCHANGED <<stdout, i>>
    /\ UNCHANGED <<args, source, capture, f_size, writer, writerSize, ret, frame, key,
                   input_image, input_data, et_count, density_map, heatmap, res_img,
                   saved, exit_status, shown, written, pulled, accepted, polls,
                   readAttempts, stopSeen>>

\* one pass of: for i in range(5): predict, print the latency
ImgBenchIter ==
    /\ pc = "img_bench"
    /\ IF i < BenchmarkRuns
       THEN /\ preds_ailia' = NetPredict(input_data)
            /\ predicted' = Append(predicted, input_data.id)
            /\ stdout' = Append(stdout, "ailia processing time")
            /\ i' = i + 1
            /\ pc' = pc
       ELSE /\ pc' = "img_post"
            /\ UNCHANGED <<preds_ailia, predicted, stdout, i>>
    /\ UNCHANGED <<args, source, capture, f_size, writer, writerSize, ret, frame, key,
                   input_image, input_data, et_count, density_map, heatmap, res_img,
                   saved, exit_status, shown, written, pulled, accepted, polls,
                   readAttempts, stopSeen>>

\* count, density map, heat map, composite, imwrite, success message
ImgPostprocess ==
    /\ pc = "img_post"
    /\ et_count' = EtCount(preds_ailia)
    /\ density_map' = Resize(ScaleDensity(preds_ailia), IMAGE_WIDTH, IMAGE_HEIGHT)
    /\ \E u \in NaNCasts : heatmap' = Heatmap(density_map', et_count', u)
    /\ res_img' = Hstack(input_data.id, input_image, heatmap')
    /\ saved' = Append(saved, Shape(res_img'))
    /\ stdout' = Append(stdout, "Script finished successfully.")
    /\ pc' = "done"
    /\ UNCHANGED <<args, source, capture, f_size, writer, writerSize, ret, frame, key,
                   input_image, input_data, preds_ailia, i, exit_status, hist>>

\* estimate_from_video: initialise the net, acquire the capture
VidOpenCapture ==
    /\ pc = "vid_open"
    /\ IF args.video = "0"
       THEN \E ok \in BOOLEAN :
              LET cap == IF ok THEN "open" ELSE "unopened" IN
              /\ capture' = cap
              /\ source' = IF ok THEN "camera" ELSE "camera_fail"
              /\ IF WebcamNotFound(cap)
                 THEN /\ stdout' = stdout \o <<"env_id", "[INFO] Webcam mode is activated",
                                               "[ERROR] webcamera not found">>
                      /\ exit_status' = 1
                      /\ pc' = "exited"
                      /\ f_size' = f_size
                 ELSE /\ stdout' = stdout \o <<"env_id", "[INFO] Webcam mode is activated">>
                      /\ exit_status' = exit_status
                      /\ pc' = "vid_writer"
                      /\ \E s \in FrameSizes : f_size' = IF ok THEN s ELSE <<0, 0>>
       ELSE \E kind \in {"missing", "undecodable", "video"} :
              /\ source' = kind
              /\ IF CheckFileExistance(kind) = "exit"
                 THEN \* the run ends inside check_file_existance
                      /\ stdout' = stdout \o <<"env_id", "[ERROR] file not found">>
                      /\ \E s \in {0, 1} : exit_status' = s
                      /\ pc' = "exited"
                      /\ UNCHANGED <<capture, f_size>>
                 ELSE /\ capture' = IF kind = "video" THEN "open" ELSE "unopened"
                      /\ \E s \in FrameSizes :
                           f_size' = IF kind = "video" THEN s ELSE <<0, 0>>
                      /\ stdout' = Append(stdout, "env_id")
                      /\ exit_status' = exit_status
                      /\ pc' = "vid_writer"
    /\ UNCHANGED <<args, writer, writerSize, ret, frame, key, work, i, saved, hist>>

\* create video writer if savepath is specified as video format
VidCreateWriter ==
    /\ pc = "vid_writer"
    /\ IF NeedsWriter(args.savepath)
       THEN LET f_h == IF capture = "open" THEN f_size[1] ELSE 0
                f_w == IF capture = "open" THEN f_size[2] ELSE 0
                s == CalcAdjustFsize(f_h, f_w)
            IN  /\ writer' = "open"
                /\ writerSize' = WriterShape(s[1], s[2])
       ELSE /\ writer' = "none"
            /\ writerSize' = writerSize
    /\ pc' = "vid_loop"
    /\ UNCHANGED <<args, source, capture, f_size, ret, frame, key, work, i, saved,
                   stdout, exit_status, hist>>

\* ret, frame = capture.read(); if (waitKey(1) & 0xFF == ord('q')) or not ret: break
VidReadPoll ==
    /\ pc = "vid_loop"
    /\ \E ok \in BOOLEAN, scene \in DensityMaps, k \in Keys :
         LET got == capture = "open" /\ ok /\ Len(pulled) < MaxFrames
             fr == IF got
                   THEN [id |-> Len(pulled) + 1, h |-> f_size[1], w |-> f_size[2],
                         scene |-> scene]
                   ELSE NoFrame
         IN  /\ ret' = got
             /\ frame' = fr
             /\ key' = k
             /\ readAttempts' = readAttempts + 1
             /\ polls' = polls + 1
             /\ pulled' = IF got THEN Append(pulled, fr.id) ELSE pulled
             /\ accepted' = IF got /\ k # "q" THEN Append(accepted, fr.id) ELSE accepted
             /\ stopSeen' = (stopSeen \/ ~got \/ k = "q")
             /\ pc' = IF ShouldBreak(k, got) THEN "vid_end" ELSE "vid_process"
    /\ UNCHANGED <<args, source, capture, f_size, writer, writerSize, work, i, saved,
                   stdout, exit_status, predicted, shown, written>>

\* preprocess, predict, count, density map, heat map, composite, imshow, write
VidProcess ==
    /\ pc = "vid_process"
    /\ input_image' = PreprocessShape(frame)
    /\ input_data' = frame
    /\ preds_ailia' = NetPredict(input_data')
    /\ predicted' = Append(predicted, input_data'.id)
    /\ et_count' = EtCount(preds_ailia')
    /\ density_map' = Resize(ScaleDensity(preds_ailia'), input_image'.w, input_image'.h)
    /\ \E u \in NaNCasts : heatmap' = Heatmap(density_map', et_count', u)
    /\ res_img' = Hstack(frame.id, input_image', heatmap')
    /\ shown' = Append(shown, Shape(res_img'))
    /\ written' = IF WriterPresent(writer) THEN Append(written, Shape(res_img'))
                                          ELSE written
    /\ pc' = "vid_loop"
    /\ UNCHANGED <<args, source, capture, f_size, writer, writerSize, ret, frame, key,
                   i, saved, stdout, exit_status, pulled, accepted, polls,
                   readAttempts, stopSeen>>

\* capture.release(); cv2.destroyAllWindows(); success message
VidFinish ==
    /\ pc = "vid_end"
    /\ capture' = "released"
    /\ stdout' = Append(stdout, "Script finished successfully.")
    /\ pc' = "done"
    /\ UNCHANGED <<args, source, f_size, writer, writerSize, ret, frame, key, work,
                   i, saved, exit_status, hist>>

Next ==
    \/ Main
    \/ ImgPrepare
    \/ ImgInference
    \/ ImgBenchIter
    \/ ImgPostprocess
    \/ VidOpenCapture
    \/ VidCreateWriter
    \/ VidReadPoll
    \/ VidProcess
    \/ VidFinish

Spec == Init /\ [][Next]_vars

\* ---------------------------------------------------------- vocabulary
Success == "Script finished successfully."
Printed(msg) == \E n \in DOMAIN stdout : stdout[n] = msg
Count(msg) == Cardinality({n \in DOMAIN stdout : stdout[n] = msg})
Streaming == args.video # None
Ended == pc \in {"done", "exited"}
Ids(imgs) == [n \in DOMAIN imgs |-> imgs[n].id]
Front(s) == SubSeq(s, 1, Len(s) - 1)
\* np.round of a non-negative value held in tenths (half to even)
RoundNearest(t) ==
    LET q == t \div 10
        r == t % 10
    IN  IF r > 5 \/ (r = 5 /\ q % 2 = 1) THEN q + 1 ELSE q

\* C1: in streaming mode, once the run has ended (end of stream, key 'q', or
\* camera not found), the capture handle is not open and the writer, when one
\* was opened, is closed again.
C1_AllReleased ==
    (Streaming /\ Ended) => (capture # "open" /\ writer # "open")

\* C2 as stated: a writer is open only for a non-default savepath and only
\* after a first frame has been read successfully.
C2_LazyWriter ==
    writer = "open" => (args.savepath # SAVE_IMAGE_PATH /\ Len(pulled) >= 1)

\* C2 as amended: a writer is open only for a non-default savepath; it is
\* opened before the frame loop, so from the first read on the writer is open
\* exactly when the savepath is not the default, whether or not a frame was read.
C2_EagerWriter ==
    /\ writer = "open" => args.savepath # SAVE_IMAGE_PATH
    /\ (Streaming /\ pc \in {"vid_loop", "vid_process", "vid_end", "done"}) =>
           (writer = "open" <=> args.savepath # SAVE_IMAGE_PATH)
    /\ readAttempts > 0 => writer \in {"open", "none"}

C2_Witness ==
    pc = "done" /\ writer = "open" /\ readAttempts = 1 /\ pulled = <<>>

\* what C3 says of every step, but for the gate on pulling a frame
C3_Polling ==
    /\ stopSeen => UNCHANGED <<predicted, shown, written, pulled, readAttempts, polls>>
    /\ polls' = readAttempts'
    /\ (Streaming /\ Len(predicted') > Len(predicted)) =>
           /\ accepted # <<>>
           /\ predicted'[Len(predicted')] = accepted[Len(accepted)]
           /\ polls = Len(predicted')

\* C3 as stated: the termination condition is polled once per iteration and
\* before the iteration's frame is processed; once a failed read or 'q' has
\* been seen nothing is read, predicted, shown or written; and a frame is
\* pulled only after a check has passed for it.
C3_PolledBeforePull ==
    [][ /\ C3_Polling
        /\ Len(pulled') > Len(pulled) => Len(accepted) >= Len(pulled') ]_vars

\* C3 as amended: the same, except that a frame is pulled before its own
\* iteration's check: the first frame is pulled with no check passed, and
\* every later frame only after the checks of all earlier frames passed.
C3_PolledAfterPull ==
    [][ /\ C3_Polling
        /\ Len(pulled') > Len(pulled) => Len(accepted) = Len(pulled) ]_vars

C3_Witness ==
    pc = "done" /\ key = "q" /\ Len(pulled) = 3 /\ Len(predicted) = 2

\* C4: in image mode net.predict is called five times on the same input with
\* --benchmark (five latency lines) and once without (none), and the count
\* drawn on the output is the count of a single prediction of that input.
C4_Benchmark ==
    (source = "image" /\ pc \in {"img_post", "done"}) =>
        /\ Len(predicted) = IF args.benchmark THEN 5 ELSE 1
        /\ \A n \in DOMAIN predicted : predicted[n] = input_data.id
        /\ Count("ailia processing time") = IF args.benchmark THEN 5 ELSE 0
        /\ preds_ailia = NetPredict(input_data)
        /\ pc = "done" => res_img.text = PyInt(NpSum(input_data.scene))

C4_Witness ==
    source = "image" /\ pc = "done" /\ args.benchmark /\ res_img.text = 2

\* C5: when the camera cannot be opened the run exits with a nonzero status
\* and a diagnostic; no frame is read, nothing is predicted, no writer is
\* opened and the success message is not printed.
C5_CameraNotFound ==
    source = "camera_fail" =>
        /\ pc = "exited"
        /\ exit_status > 0
        /\ Printed("[ERROR] webcamera not found")
        /\ readAttempts = 0
        /\ predicted = <<>>
        /\ writer # "open"
        /\ ~Printed(Success)

C5_Witness ==
    source = "camera_fail" /\ pc = "exited" /\ args.savepath # SAVE_IMAGE_PATH

\* C6: a video path that is missing or cannot be decoded is fatal: the frame
\* loop is not entered and the success message is never printed.
C6_FatalOpen ==
    source \in {"missing", "undecodable"} =>
        (readAttempts = 0 /\ pc # "done" /\ ~Printed(Success))

\* C7: for an all-zero density map the scaled map is all zero, with no NaN
\* in the map that is resized and colour-mapped.
C7_ZeroMapNoNaN ==
    (density_map.cells # <<>> /\ NpMax(preds_ailia) = 0) =>
        \A c \in DOMAIN density_map.cells :
            /\ ~IsNaN(density_map.cells[c])
            /\ density_map.cells[c].num = 0
            /\ heatmap.cells[c] = 0

\* C8: the count drawn on the heat map is the sum of the raw density values
\* rounded to the nearest integer (2.7 gives 3).
C8_RoundedCount ==
    heatmap.text # -1 =>
        (heatmap.text = RoundNearest(NpSum(preds_ailia)) /\ res_img.text = heatmap.text)

C10_OncePerFrame ==
    Streaming =>
        LET handled == IF pc = "vid_process" THEN Front(accepted) ELSE accepted
        IN  /\ pulled = [n \in 1..Len(pulled) |-> n]
            /\ \A n \in DOMAIN accepted : accepted[n] = n
            /\ Len(accepted) \in {Len(pulled), Len(pulled) - 1}
            /\ Len(accepted) < Len(pulled) => (key = "q" /\ pc \in {"vid_end", "done"})
            /\ predicted = handled
            /\ Ids(shown) = handled
            /\ writer = "open" => Ids(written) = handled
            /\ writer # "open" => written = <<>>

C10_Witness ==
    /\ pc = "done" /\ args.benchmark /\ writer = "open"
    /\ Len(pulled) = 3 /\ accepted = <<1, 2>> /\ Ids(written) = <<1, 2>>

====
